---------------------------- MODULE Spec2Model ----------------------------
(***************************************************************************)
(* Model of the WordleSolver constraint engine                             *)
(* (src/src/solver/WordleSolver.ts) and of the feedback its caller builds  *)
(* in playRound (src/src/autoSolveWordles.ts).                             *)
(*                                                                         *)
(* A JavaScript string is modelled as a sequence of one-character strings. *)
(* JavaScript indexes from 0, TLA+ sequences from 1: At(s, i) is s[i] of   *)
(* the source, and is Undefined when i is out of range, as in JavaScript.  *)
(* A WordleSolver instance is a record of its private fields.              *)
(***************************************************************************)
EXTENDS Naturals, Sequences, FiniteSets

(***************************************************************************)
(* Characters and strings                                                  *)
(***************************************************************************)

\* What JavaScript yields for s[i] with i out of range.
Undefined == "undefined"

At(s, i) == IF i + 1 \in DOMAIN s THEN s[i + 1] ELSE Undefined

\* String.prototype.toLowerCase, on the characters the model uses.
LowerChar(c) ==
    CASE c = "A" -> "a"
      [] c = "B" -> "b"
      [] c = "C" -> "c"
      [] OTHER -> c

toLowerCase(s) == [k \in DOMAIN s |-> LowerChar(s[k])]

\* The white space characters the model uses: the space and the tab.
WhiteSpace == {" ", "\t"}

\* String.prototype.trimEnd: strips the trailing white space.
RECURSIVE trimEnd(_)
trimEnd(s) ==
    IF s # <<>> /\ s[Len(s)] \in WhiteSpace THEN trimEnd(SubSeq(s, 1, Len(s) - 1)) ELSE s

Repeat(c, n) == [k \in 1..n |-> c]

\* String.prototype.padEnd(n, c) with a one-character filler.
padEnd(s, n, c) == IF Len(s) >= n THEN s ELSE s \o Repeat(c, n - Len(s))

\* String.prototype.includes for a one-character argument.
includes(s, c) == \E k \in DOMAIN s : s[k] = c

\* [...new Set(seq)]: first occurrences, in insertion order.
RECURSIVE SetOrder(_)
SetOrder(seq) ==
    IF seq = <<>> THEN <<>>
    ELSE LET front == SetOrder(SubSeq(seq, 1, Len(seq) - 1))
             last  == seq[Len(seq)]
         IN  IF \E k \in DOMAIN front : front[k] = last THEN front
             ELSE Append(front, last)

(***************************************************************************)
(* WordleSolver                                                            *)
(***************************************************************************)

isEmpty(char) == char \in {"_", " ", "-", "·", Undefined}

sanitizeInput(input) == trimEnd(toLowerCase(input))

sanitizeSolveParams(solveParams) ==
    [validLetters      |-> sanitizeInput(solveParams.validLetters),
     notInPlaceLetters |-> sanitizeInput(solveParams.notInPlaceLetters),
     invalidLetters    |-> sanitizeInput(solveParams.invalidLetters)]

getWordLength(this) == Len(this.ALL_WORDS[1])

\* The loop of addValidLetters from index i on: the poison value at the first
\* collision, the merged letters otherwise.
RECURSIVE addValidLettersLoop(_, _, _, _, _)
addValidLettersLoop(currentValidLetters, newValidLetters, wordLength, i, finalValidLetters) ==
    IF i >= wordLength THEN finalValidLetters
    ELSE LET currentValidLetter == At(currentValidLetters, i)
             newValidLetter     == At(newValidLetters, i)
             hasCollision == /\ ~isEmpty(currentValidLetter)
                             /\ ~isEmpty(newValidLetter)
                             /\ currentValidLetter # newValidLetter
         IN  IF hasCollision THEN Repeat("?", wordLength)
             ELSE addValidLettersLoop(
                      currentValidLetters, newValidLetters, wordLength, i + 1,
                      finalValidLetters \o
                          (IF ~isEmpty(currentValidLetter) THEN <<currentValidLetter>>
                           ELSE IF ~isEmpty(newValidLetter) THEN <<newValidLetter>>
                           ELSE <<" ">>))

\* addValidLetters with the collision unnoticed: the letter already held wins.
addValidLettersKeepsCurrent(this, newValidLetters) ==
    LET wordLength == getWordLength(this)
        current == padEnd(this.validLetters, wordLength, " ")
        new     == padEnd(newValidLetters, wordLength, " ")
    IN  [this EXCEPT !.validLetters =
            [k \in 1..wordLength |->
                IF ~isEmpty(current[k]) THEN current[k]
                ELSE IF ~isEmpty(new[k]) THEN new[k] ELSE " "]]

\* addValidLetters with the incoming letter winning over the letter held.
addValidLettersNewWins(this, newValidLetters) ==
    LET wordLength == getWordLength(this)
        current == padEnd(this.validLetters, wordLength, " ")
        new     == padEnd(newValidLetters, wordLength, " ")
    IN  [this EXCEPT !.validLetters =
            [k \in 1..wordLength |->
                IF ~isEmpty(new[k]) THEN new[k]
                ELSE IF ~isEmpty(current[k]) THEN current[k] ELSE " "]]

\* addValidLetters walking the new string instead of the word length.
addValidLettersNewLength(this, newValidLetters) ==
    LET wordLength == getWordLength(this)
    IN  [this EXCEPT !.validLetters =
            addValidLettersLoop(padEnd(this.validLetters, wordLength, " "),
                                padEnd(newValidLetters, wordLength, " "),
                                Len(newValidLetters), 0, <<>>)]

addValidLetters(this, newValidLetters) ==
    LET wordLength == getWordLength(this)
    IN  [this EXCEPT !.validLetters =
            addValidLettersLoop(padEnd(this.validLetters, wordLength, " "),
                                padEnd(newValidLetters, wordLength, " "),
                                wordLength, 0, <<>>)]

\* addNotInPlaceLetters without the Set: a record is appended every time.
addNotInPlaceLettersNoSet(this, notInPlaceLetters) ==
    IF notInPlaceLetters = <<>> THEN this
    ELSE [this EXCEPT !.notInPlaceLetters = this.notInPlaceLetters \o <<notInPlaceLetters>>]

\* addNotInPlaceLetters without the early return on an empty string.
addNotInPlaceLettersNoReturn(this, notInPlaceLetters) ==
    [this EXCEPT !.notInPlaceLetters =
        SetOrder(this.notInPlaceLetters \o <<notInPlaceLetters>>)]

addNotInPlaceLetters(this, notInPlaceLetters) ==
    IF notInPlaceLetters = <<>> THEN this
    ELSE [this EXCEPT !.notInPlaceLetters =
            SetOrder(this.notInPlaceLetters \o <<notInPlaceLetters>>)]

removeDuplicates(string) == SetOrder(string)

\* addInvalidLetters keeping the incoming letters only.
addInvalidLettersReplaces(this, invalidLetters) ==
    [this EXCEPT !.invalidLetters = removeDuplicates(invalidLetters)]

addInvalidLetters(this, invalidLetters) ==
    [this EXCEPT !.invalidLetters = removeDuplicates(this.invalidLetters \o invalidLetters)]

\* The loop of initializeIndexes from index i on: the two index lists.
RECURSIVE initializeIndexesLoop(_, _, _)
initializeIndexesLoop(validLetters, wordLength, i) ==
    IF i >= wordLength THEN [validIndexes |-> <<>>, notCompletedIndexes |-> <<>>]
    ELSE LET letter == At(validLetters, i)
             rest   == initializeIndexesLoop(validLetters, wordLength, i + 1)
         IN  IF isEmpty(letter)
             THEN [rest EXCEPT !.notCompletedIndexes = <<i>> \o @]
             ELSE [rest EXCEPT !.validIndexes = <<i>> \o @]

initializeIndexes(this) ==
    LET indexes == initializeIndexesLoop(this.validLetters, getWordLength(this), 0)
    IN  [this EXCEPT !.validIndexes = indexes.validIndexes,
                     !.notCompletedIndexes = indexes.notCompletedIndexes]

initializeNextSolve(this, solveParams) ==
    LET sane == sanitizeSolveParams(solveParams)
    IN  initializeIndexes(
            addInvalidLetters(
                addNotInPlaceLetters(
                    addValidLetters(this, sane.validLetters),
                    sane.notInPlaceLetters),
                sane.invalidLetters))

Reverse(seq) == [k \in DOMAIN seq |-> seq[Len(seq) + 1 - k]]

\* Pass 1 collecting the surviving words at the front of its result.
filterWordsWithCorrectLettersUnshift(this, words) ==
    LET isValid(word) ==
            \A k \in DOMAIN this.validIndexes :
                LET index == this.validIndexes[k]
                IN  At(word, index) = At(this.validLetters, index)
    IN  Reverse(SelectSeq(words, isValid))

\* Pass 1 with its loop starting at the second settled index.
filterWordsWithCorrectLettersFromSecond(this, words) ==
    LET isValid(word) ==
            \A k \in DOMAIN this.validIndexes :
                k = 1 \/ LET index == this.validIndexes[k]
                         IN  At(word, index) = At(this.validLetters, index)
    IN  SelectSeq(words, isValid)

\* Pass 1: the words that carry the confirmed letter at every settled index.
filterWordsWithCorrectLetters(this, words) ==
    LET isValid(word) ==
            \A k \in DOMAIN this.validIndexes :
                LET index == this.validIndexes[k]
                IN  At(word, index) = At(this.validLetters, index)
    IN  SelectSeq(words, isValid)

\* The letters of word, from index i on, that differ from the confirmed letter
\* of their position.
RECURSIVE wordWithoutValidLettersLoop(_, _, _)
wordWithoutValidLettersLoop(validLetters, word, i) ==
    IF i >= Len(word) THEN <<>>
    ELSE LET letter == At(word, i)
         IN  (IF At(validLetters, i) # letter THEN <<letter>> ELSE <<>>)
                 \o wordWithoutValidLettersLoop(validLetters, word, i + 1)

\* Pass 2 without the exception for letters that occur in a misplaced record.
removeWordsWithInvalidLettersNoException(this, words) ==
    LET keep(word) ==
            LET wordWithoutValidLetters ==
                    wordWithoutValidLettersLoop(this.validLetters, word, 0)
            IN  ~ \E k \in DOMAIN this.invalidLetters :
                    includes(wordWithoutValidLetters, this.invalidLetters[k])
    IN  SelectSeq(words, keep)

\* Pass 2: drops the words holding an absent letter outside its confirmed
\* positions, unless that letter occurs in some misplaced record.
removeWordsWithInvalidLetters(this, words) ==
    LET keep(word) ==
            LET wordWithoutValidLetters ==
                    wordWithoutValidLettersLoop(this.validLetters, word, 0)
                rejects(letter) ==
                    LET existsLetterInNotInPlaceLetters ==
                            \E r \in DOMAIN this.notInPlaceLetters :
                                includes(this.notInPlaceLetters[r], letter)
                    IN  IF existsLetterInNotInPlaceLetters THEN FALSE
                        ELSE includes(wordWithoutValidLetters, letter)
            IN  ~ \E k \in DOMAIN this.invalidLetters : rejects(this.invalidLetters[k])
    IN  SelectSeq(words, keep)

\* Pass 3 looking at the newest misplaced record only.
removeWordsWithNotInPlaceIndexesNewestOnly(this, words) ==
    LET keep(word) ==
            ~ \E k \in DOMAIN this.notCompletedIndexes :
                LET index == this.notCompletedIndexes[k]
                IN  /\ this.notInPlaceLetters # <<>>
                    /\ At(this.notInPlaceLetters[Len(this.notInPlaceLetters)], index)
                           = At(word, index)
    IN  SelectSeq(words, keep)

\* Pass 3: drops the words that have, at an unsettled index, the letter some
\* misplaced record holds at that index.
removeWordsWithNotInPlaceIndexes(this, words) ==
    LET keep(word) ==
            ~ \E k \in DOMAIN this.notCompletedIndexes :
                LET index == this.notCompletedIndexes[k]
                IN  \E r \in DOMAIN this.notInPlaceLetters :
                        At(this.notInPlaceLetters[r], index) = At(word, index)
    IN  SelectSeq(words, keep)

\* The loop over one misplaced record, from index j on: FALSE as soon as the
\* word holds the record's letter at j or nowhere else.
RECURSIVE notInPlaceCombinationLoop(_, _, _)
notInPlaceCombinationLoop(word, notInPlace, j) ==
    IF j >= Len(notInPlace) THEN TRUE
    ELSE LET letterNotInPlace == At(notInPlace, j)
         IN  IF isEmpty(letterNotInPlace)
             THEN notInPlaceCombinationLoop(word, notInPlace, j + 1)
             ELSE IF At(word, j) = letterNotInPlace THEN FALSE
             ELSE IF ~ \E i \in 0..(Len(word) - 1) :
                         i # j /\ At(word, i) = letterNotInPlace
                  THEN FALSE
             ELSE notInPlaceCombinationLoop(word, notInPlace, j + 1)

\* The reduce of Pass 4 over the records r..: each record filters the words
\* the previous one left.
RECURSIVE notInPlaceReduce(_, _, _)
notInPlaceReduce(notInPlaceLetters, r, wordsRemaining) ==
    IF r > Len(notInPlaceLetters) THEN wordsRemaining
    ELSE LET keep(word) == notInPlaceCombinationLoop(word, notInPlaceLetters[r], 0)
         IN  notInPlaceReduce(notInPlaceLetters, r + 1, SelectSeq(wordsRemaining, keep))

\* Pass 4 skipping the slots of a record that sit at a settled index.
removeInvalidNotInPlaceCombinationsUnsettledOnly(this, words) ==
    LET keep(word) ==
            \A r \in DOMAIN this.notInPlaceLetters :
                LET notInPlace == this.notInPlaceLetters[r]
                IN  \A j \in 0..(Len(notInPlace) - 1) :
                        \/ isEmpty(At(notInPlace, j))
                        \/ \E k \in DOMAIN this.validIndexes : this.validIndexes[k] = j
                        \/ /\ At(word, j) # At(notInPlace, j)
                           /\ \E i \in 0..(Len(word) - 1) :
                                  i # j /\ At(word, i) = At(notInPlace, j)
    IN  SelectSeq(words, keep)

\* Pass 4 applied to the oldest record only.
removeInvalidNotInPlaceCombinationsFirstOnly(this, words) ==
    IF this.notInPlaceLetters = <<>> THEN words
    ELSE notInPlaceReduce(<<this.notInPlaceLetters[1]>>, 1, words)

\* Pass 4: every letter of every misplaced record occurs in the word, away
\* from the position it was reported at.
removeInvalidNotInPlaceCombinations(this, words) ==
    notInPlaceReduce(this.notInPlaceLetters, 1, words)

\* The passes of an incremental solve: Pass 1 starts from the cached list.
solvePassesIncremental(this) ==
    LET pass1 == filterWordsWithCorrectLetters(this, this.possibleWords)
        pass2 == removeWordsWithInvalidLetters(this, pass1)
        pass3 == removeWordsWithNotInPlaceIndexes(this, pass2)
        pass4 == removeInvalidNotInPlaceCombinations(this, pass3)
    IN  <<pass1, pass2, pass3, pass4>>

\* The four values solve assigns to this.possibleWords, in order.
solvePasses(this) ==
    LET pass1 == filterWordsWithCorrectLetters(this, this.ALL_WORDS)
        pass2 == removeWordsWithInvalidLetters(this, pass1)
        pass3 == removeWordsWithNotInPlaceIndexes(this, pass2)
        pass4 == removeInvalidNotInPlaceCombinations(this, pass3)
    IN  <<pass1, pass2, pass3, pass4>>

solve(this, solveParams) ==
    LET next == initializeNextSolve(this, solveParams)
    IN  [next EXCEPT !.possibleWords = solvePasses(next)[4]]

\* reset giving the cached list back to the dictionary.
resetClearsPossibleWords(this) ==
    [this EXCEPT !.validLetters = <<>>,
                 !.notInPlaceLetters = <<>>,
                 !.invalidLetters = <<>>,
                 !.validIndexes = <<>>,
                 !.notCompletedIndexes = <<>>,
                 !.possibleWords = this.ALL_WORDS]

\* reset leaving the absent letters in place.
resetKeepsInvalidLetters(this) ==
    [this EXCEPT !.validLetters = <<>>,
                 !.notInPlaceLetters = <<>>,
                 !.validIndexes = <<>>,
                 !.notCompletedIndexes = <<>>]

reset(this) ==
    [this EXCEPT !.validLetters = <<>>,
                 !.notInPlaceLetters = <<>>,
                 !.invalidLetters = <<>>,
                 !.validIndexes = <<>>,
                 !.notCompletedIndexes = <<>>]

\* reset(allWords): the reset, and the dictionary replaced.
resetTo(this, allWords) == [reset(this) EXCEPT !.ALL_WORDS = allWords]

\* constructor: new WordleSolver(allWords)
WordleSolver(allWords) ==
    reset([validLetters |-> <<>>, notInPlaceLetters |-> <<>>, invalidLetters |-> <<>>,
           validIndexes |-> <<>>, notCompletedIndexes |-> <<>>,
           possibleWords |-> allWords, ALL_WORDS |-> allWords])

getPossibleWords(this) == this.possibleWords

getValidLetters(this) == this.validLetters

getNotInPlaceLetters(this) == this.notInPlaceLetters

getInvalidLetters(this) == this.invalidLetters

getState(this) ==
    [validLetters      |-> getValidLetters(this),
     notInPlaceLetters |-> getNotInPlaceLetters(this),
     invalidLetters    |-> getInvalidLetters(this)]

\* The forEach of restoreTo over the records r..: one solve per record.
RECURSIVE restoreSteps(_, _, _)
restoreSteps(this, notInPlaceLetters, r) ==
    IF r > Len(notInPlaceLetters) THEN this
    ELSE restoreSteps(
             solve(this, [validLetters |-> <<>>,
                          invalidLetters |-> <<>>,
                          notInPlaceLetters |-> notInPlaceLetters[r]]),
             notInPlaceLetters, r + 1)

restoreTo(this, state) ==
    restoreSteps(
        solve(reset(this), [validLetters |-> state.validLetters,
                            invalidLetters |-> state.invalidLetters,
                            notInPlaceLetters |-> <<>>]),
        state.notInPlaceLetters, 1)

(***************************************************************************)
(* The caller's round (autoSolveWordles.ts)                                *)
(***************************************************************************)

RGB_CELL_COLORS == [CORRECT |-> "CORRECT", PRESENT |-> "PRESENT", ABSENT |-> "ABSENT"]

\* The loop of playRound from letterIndex on: the three feedback strings
\* built from the colours the page shows for the played word.
RECURSIVE playRoundLoop(_, _, _)
playRoundLoop(word, cellStateColor, letterIndex) ==
    IF letterIndex > Len(word)
    THEN [validLetters |-> <<>>, notInPlaceLetters |-> <<>>, invalidLetters |-> <<>>]
    ELSE LET letter == word[letterIndex]
             color  == cellStateColor[letterIndex]
             rest   == playRoundLoop(word, cellStateColor, letterIndex + 1)
         IN  [validLetters |->
                  <<IF color = RGB_CELL_COLORS.CORRECT THEN letter ELSE "-">>
                      \o rest.validLetters,
              notInPlaceLetters |->
                  <<IF color = RGB_CELL_COLORS.PRESENT THEN letter ELSE "-">>
                      \o rest.notInPlaceLetters,
              invalidLetters |->
                  (IF color = RGB_CELL_COLORS.ABSENT THEN <<letter>> ELSE <<>>)
                      \o rest.invalidLetters]

playRound(word, cellStateColor) == playRoundLoop(word, cellStateColor, 1)

\* The colourings the game page may show for a played word against the
\* solution: a position is CORRECT exactly when the letters agree; of the
\* other positions holding a letter x, as many are PRESENT as the solution has
\* occurrences of x left after the CORRECT ones (all of them if fewer), and
\* the rest are ABSENT.  Which of the repeated positions are PRESENT is left
\* open.
PageColors(word, theSolution) ==
    {color \in [DOMAIN word -> {RGB_CELL_COLORS.CORRECT, RGB_CELL_COLORS.PRESENT,
                               RGB_CELL_COLORS.ABSENT}] :
        /\ \A k \in DOMAIN word :
              (color[k] = RGB_CELL_COLORS.CORRECT) <=> (word[k] = theSolution[k])
        /\ \A j \in DOMAIN word :
              LET x == word[j]
                  Count(seq, Test(_)) == Cardinality({k \in DOMAIN seq : Test(k)})
                  inSolution(k) == theSolution[k] = x
                  correct(k)    == word[k] = x /\ color[k] = RGB_CELL_COLORS.CORRECT
                  present(k)    == word[k] = x /\ color[k] = RGB_CELL_COLORS.PRESENT
                  notCorrect(k) == word[k] = x /\ color[k] # RGB_CELL_COLORS.CORRECT
                  left == Count(theSolution, inSolution) - Count(word, correct)
                  open == Count(word, notCorrect)
              IN  Count(word, present) = IF open < left THEN open ELSE left}

(***************************************************************************)
(* State                                                                   *)
(***************************************************************************)

VARIABLES
    wordleSolver,   \* the engine: a WordleSolver instance
    otherSolver,    \* a second engine over the same dictionary
    paired,         \* otherSolver was constructed at the engine's last reset
                    \* and has been given the same solve calls since
    lastCall,       \* the last call made: its name and its SolveParams
    prevCall,       \* the call made before lastCall
    returned,       \* the list the last solve or restoreTo returned
    nCalls,         \* the number of solve calls made
    poisoned,       \* a solve since the last reset supplied a conflicting letter
    wasReset,       \* reset has been called on the engine
    resetPoisoned,  \* the last reset was called on a poisoned engine
    solution,       \* the game's solution word (truthful play only)
    game,           \* solveWordle: its locals, its position, the page's board
    gameSteps,      \* the number of steps solveWordle has taken
    solutionsFiles, \* the solutions file of each wordle type: its list
    clock,          \* the time, in units of twelve hours
    run             \* the run in progress: its entry point, position and locals

vars == <<wordleSolver, otherSolver, paired, lastCall, prevCall, returned, nCalls,
          poisoned, wasReset, resetPoisoned, solution, game, gameSteps,
          solutionsFiles, clock, run>>

\* The variables of a run over the solutions files.
runVars == <<solutionsFiles, clock, run>>

\* The number of solve calls a run makes.
MaxCalls == 3

NoParams == [validLetters |-> <<>>, notInPlaceLetters |-> <<>>, invalidLetters |-> <<>>]

Range(seq) == {seq[k] : k \in DOMAIN seq}

\* The incoming confirmed letters, once sanitized, hold at some index a
\* letter different from the one the engine holds there.
Conflicts(this, solveParams) ==
    LET new == sanitizeInput(solveParams.validLetters)
    IN  \E i \in 0..(getWordLength(this) - 1) :
            /\ ~isEmpty(At(this.validLetters, i))
            /\ ~isEmpty(At(new, i))
            /\ At(this.validLetters, i) # At(new, i)

(***************************************************************************)
(* solveWordle (autoSolveWordles.ts)                                       *)
(***************************************************************************)

NUM_OF_ROUNDS == 6

\* A word that is undefined.
NoWord == <<Undefined>>

normalizeLetter(letter) ==
    CASE letter = "á" -> "a"
      [] letter = "é" -> "e"
      [] letter = "í" -> "i"
      [] letter = "ó" -> "o"
      [] letter = "ú" -> "u"
      [] OTHER -> letter

normalizeAccents(word) == [k \in DOMAIN word |-> normalizeLetter(word[k])]

\* The words with n different letters, then those with n - 1, and so on, each
\* group in the order of words: the stable sort by number of different
\* letters, largest first.
RECURSIVE sortByLetters(_, _)
sortByLetters(words, n) ==
    IF n = 0 THEN <<>>
    ELSE LET hasLetters(word) == Cardinality(Range(word)) = n
         IN  SelectSeq(words, hasLetters) \o sortByLetters(words, n - 1)

sortWordsWithMoreLetters(words) ==
    LET most == IF words = <<>> THEN 0
                ELSE CHOOSE n \in 1..Len(words[1]) :
                         /\ \E k \in DOMAIN words : Cardinality(Range(words[k])) = n
                         /\ \A k \in DOMAIN words : Cardinality(Range(words[k])) <= n
    IN  sortByLetters(words, most)

\* The first entry of the dual dictionary whose normalized word is word: its
\* original word, or undefined.
findWordInDualDictionary(word, dictionary) ==
    IF \E k \in DOMAIN dictionary : dictionary[k][2] = word
    THEN dictionary[CHOOSE k \in DOMAIN dictionary :
                        /\ dictionary[k][2] = word
                        /\ \A m \in 1..(k - 1) : dictionary[m][2] # word][1]
    ELSE NoWord

\* random(array): the values Math.random may select; undefined from an empty
\* array.
random(array) == IF array = <<>> THEN {NoWord} ELSE Range(array)

numOfFirstElementsToPick == 20

pickRandomlyFromFirstElements(array) ==
    random(SubSeq(array, 1, IF Len(array) < numOfFirstElementsToPick
                            THEN Len(array) ELSE numOfFirstElementsToPick))

selectWord(words) == pickRandomlyFromFirstElements(words)

\* The counter used as the row even after it has passed the last row.
boardRowNoNewBoard(currentRound) == currentRound

\* The row of the board a round is played on: the counter, or 1 on the new
\* board that is started when the counter has passed the last row.
boardRow(currentRound) == IF currentRound > NUM_OF_ROUNDS THEN 1 ELSE currentRound

\* The loop giving up after three boards instead of two.
roundsLimitThreeBoards == NUM_OF_ROUNDS * 3

\* The total after which the loop gives up.
roundsLimit == NUM_OF_ROUNDS * 2

\* solveWordle before it is called.
NoGame ==
    [pc |-> "none", itHasAccents |-> FALSE, dualDictionary |-> <<>>,
     word |-> NoWord, currentRound |-> 0, totalRounds |-> 0, solution |-> NoWord,
     played |-> NoWord, row |-> 0, boards |-> 0, boardRows |-> 0,
     roundsPlayed |-> 0, refuted |-> {}, refutedBefore |-> {},
     roundResult |-> [validLetters |-> <<>>, notInPlaceLetters |-> <<>>,
                      invalidLetters |-> <<>>],
     solveCalled |-> FALSE, result |-> [round |-> 0, word |-> NoWord]]

(***************************************************************************)
(* Solutions files (autoSolveWordles.ts start, index.ts main)              *)
(***************************************************************************)

\* One day, the clock counting units of twelve hours.
oneDay == 2

\* The start dates, in units of twelve hours after the start of NORMAL: ACCENT
\* starts 53 days later and SCIENCE 66 days later, all at the same hour.
WORDLE_START_DATE == [NORMAL |-> 0, ACCENT |-> 53 * oneDay, SCIENCE |-> 66 * oneDay]

getGameIdFromDate(wordleType, date) ==
    LET start == WORDLE_START_DATE[wordleType]
        diff  == date - start
    IN  diff \div oneDay

getTodaysGameId(wordleType, now) == getGameIdFromDate(wordleType, now)

\* The wordle types start goes through, in the order of the keys of WORDLES.
WORDLES == <<"NORMAL", "ACCENT">>

\* The wordle type main looks up.
MainTypes == <<"NORMAL">>

MIN_LETTERS_TO_CREATE_WORDLE == 5

\* The url of the custom game start stores with a word: empty for a word too
\* short to create one.
customWordleUrl(word) ==
    IF Len(word) >= MIN_LETTERS_TO_CREATE_WORDLE THEN "custom" ELSE ""

\* solutions.some( solution => solution.gameId === gameId ), looking at the
\* first entry only.
existsSolutionFirstOnly(solutions, gameId) ==
    solutions # <<>> /\ solutions[1].gameId = gameId

\* solutions.some( solution => solution.gameId === gameId )
existsSolution(solutions, gameId) ==
    \E k \in DOMAIN solutions : solutions[k].gameId = gameId

\* solutions.sort( ( a, b ) => b.gameId - a.gameId ): the stable sort, largest
\* gameId first.  An entry goes behind the entries whose gameId is not less
\* than its own.
RECURSIVE sortByGameId(_)
sortByGameId(solutions) ==
    IF solutions = <<>> THEN <<>>
    ELSE LET last   == solutions[Len(solutions)]
             sorted == sortByGameId(SubSeq(solutions, 1, Len(solutions) - 1))
             ahead  == Cardinality({k \in DOMAIN sorted :
                                        sorted[k].gameId >= last.gameId})
         IN  SubSeq(sorted, 1, ahead) \o <<last>>
                 \o SubSeq(sorted, ahead + 1, Len(sorted))

\* solutions.push( entry ) and the sort that follows it.
addSolution(solutions, entry) == sortByGameId(Append(solutions, entry))

\* The clock when the first run starts: both games have started long ago.
FirstClock == WORDLE_START_DATE.NORMAL + 107 * oneDay

\* The number of times the clock advances.
MaxTicks == 3

\* The number of runs made.
MaxRuns == 2

\* No run in progress.
NoRun ==
    [pc |-> "none", entry |-> "none", types |-> <<>>, index |-> 0, gameId |-> 0,
     readAt |-> 0, solutions |-> <<>>, before |-> <<>>, added |-> <<>>, runs |-> 0]

\* No solutions file.
NoFiles == <<>>

(***************************************************************************)
(* Dictionaries and feedback                                               *)
(***************************************************************************)

Dictionary ==
    << <<"a","b","c">>, <<"c","a","b">>, <<"a","a","b">>, <<"b","c","a">>,
       <<"a","b","b">>, <<"c","b","a">>, <<"b","a","b">>, <<"a","c","c">> >>

SolveParams(validLetters, notInPlaceLetters, invalidLetters) ==
    [validLetters |-> validLetters,
     notInPlaceLetters |-> notInPlaceLetters,
     invalidLetters |-> invalidLetters]

\* Feedback carrying confirmed letters only: upper case, every empty marker,
\* a trailing space, a string shorter than the words, colliding letters, and
\* a string longer than the words that holds a tab.
ValidLettersInputs ==
    { SolveParams(v, <<>>, <<>>) :
        v \in { <<"a","_","_">>, <<"_","b">>, <<"A","-"," ">>, <<"b">>,
                <<"·","c","·">>, <<"a","b","\t","c">> } }

\* Feedback carrying one misplaced record only: two spellings of one record.
NotInPlaceLettersInputs ==
    { SolveParams(<<>>, n, <<>>) :
        n \in { <<"a","_","_">>, <<"_","a","_">>, <<"b">>, <<"B"," ">>,
                <<"-","c","a">> } }

\* Feedback carrying absent letters only.
InvalidLettersInputs ==
    { SolveParams(<<>>, <<>>, i) :
        i \in { <<"a">>, <<"c","b">>, <<"C">>, <<" ","a">>, <<"b","b">> } }

\* Feedback carrying several kinds at once, as a round of the game does.
RoundInputs ==
    { SolveParams(<<"-","-","b">>, <<"a","-","-">>, <<"b">>),
      SolveParams(<<"a","-","-">>, <<"-","b","a">>, <<>>),
      SolveParams(<<"_","b","_">>, <<"c","_","_">>, <<"a">>),
      SolveParams(<<"a">>, <<"a","_","_">>, <<>>) }

SolveInputs ==
    {NoParams} \cup ValidLettersInputs \cup NotInPlaceLettersInputs
        \cup InvalidLettersInputs \cup RoundInputs

\* The records the two runs of SpecOrder draw from, and the confirmed and
\* absent letters they share.
OrderRecords == { <<>>, <<"_","a","_">>, <<"b">>, <<"-","c","a">> }

OrderInputs ==
    { SolveParams(vi[1], n, vi[2]) :
        vi \in { <<<<>>, <<>>>>, <<<<"a","_","_">>, <<"c">>>> }, n \in OrderRecords }

\* The words played in a truthful game: the dictionary's, and others.
PlayedWords ==
    Range(Dictionary) \cup
        { <<"b","b","a">>, <<"c","c","b">> }

AppleWords == << <<"a","p","p","l","e">>, <<"m","a","n","g","o">> >>

CraneWords ==
    << <<"c","r","a","n","e">>, <<"c","r","a","t","e">>, <<"t","r","a","c","e">>,
       <<"c","a","b","i","n">> >>

AppleInputs ==
    { SolveParams(v, n, i) :
        v \in { <<>>, <<"_","p","p","_","_">> },
        n \in { <<>>, <<"a","_","_","_","_">>, <<"_","_","_","_","a">> },
        i \in { <<>>, <<"a">>, <<"m">> } }

CraneInputs ==
    { SolveParams(v, n, i) :
        v \in { <<>>, <<"c","r","a","_","_">>, <<"_","_","a","_","e">> },
        n \in { <<>>, <<"_","_","_","t","_">> },
        i \in { <<>>, <<"b">>, <<"n">> } }

ScenarioInputs(allWords) == IF allWords = AppleWords THEN AppleInputs ELSE CraneInputs

\* The four characters a feedback string may hold where it reports nothing.
Markers == {"_", " ", "-", "·"}

\* The strings got from string by replacing markers by markers.
RECURSIVE MarkerVariants(_)
MarkerVariants(string) ==
    IF string = <<>> THEN {<<>>}
    ELSE {<<c>> \o rest :
            c \in (IF Head(string) \in Markers THEN Markers ELSE {Head(string)}),
            rest \in MarkerVariants(Tail(string))}

ParamsMarkerVariants(solveParams) ==
    { SolveParams(v, n, i) :
        v \in MarkerVariants(solveParams.validLetters),
        n \in MarkerVariants(solveParams.notInPlaceLetters),
        i \in MarkerVariants(solveParams.invalidLetters) }

\* Feedback whose markers SpecMarkers respells: confirmed, misplaced and absent
\* strings with one or two markers, one of them after a tab.
MarkerInputs ==
    { SolveParams(<<"a","_","_">>, <<>>, <<>>),
      SolveParams(<<"_","b">>, <<>>, <<>>),
      SolveParams(<<"a","\t","_">>, <<>>, <<>>),
      SolveParams(<<>>, <<"_","a","_">>, <<>>),
      SolveParams(<<>>, <<"b","_">>, <<>>),
      SolveParams(<<>>, <<>>, <<"c","_">>) }

\* The first n characters of a string.
FirstChars(string, n) ==
    SubSeq(string, 1, IF Len(string) < n THEN Len(string) ELSE n)

\* The feedback cut to the word length in its two positional fields.
Truncated(solveParams, wordLength) ==
    [solveParams EXCEPT
        !.validLetters = FirstChars(solveParams.validLetters, wordLength),
        !.notInPlaceLetters = FirstChars(solveParams.notInPlaceLetters, wordLength)]

\* Feedback for SpecTruncate: a positional string longer than the words in
\* one field at a time, and feedback of ordinary length to vary the state the
\* long strings arrive in.
TruncateInputs ==
    { SolveParams(<<>>, <<"_","_","_","a">>, <<>>),
      SolveParams(<<>>, <<"b","_","_","c">>, <<>>),
      SolveParams(<<>>, <<"_","a","_"," ">>, <<>>),
      SolveParams(<<"a","_","_","b">>, <<>>, <<>>),
      SolveParams(<<"_","b","_","C","a">>, <<>>, <<>>),
      SolveParams(<<"a","b","\t","c">>, <<>>, <<>>),
      SolveParams(<<"_","_","b">>, <<>>, <<>>),
      SolveParams(<<>>, <<"a","_","_">>, <<>>),
      SolveParams(<<>>, <<>>, <<"c">>) }

\* The feedback of SpecCache: rounds of the game, absent letters alone, and
\* the empty feedback.
CacheInputs == {NoParams} \cup RoundInputs \cup InvalidLettersInputs

\* A second dictionary, for a reset that replaces the first.
OtherDictionary == << <<"b","c","a">>, <<"c","c","b">>, <<"a","b","c">> >>

\* The feedback of SpecIndependent: short strings that reach one stored state
\* along different orders.
IndependentInputs ==
    { NoParams,
      SolveParams(<<"a","_","_">>, <<>>, <<>>),
      SolveParams(<<>>, <<"-","c","a">>, <<>>),
      SolveParams(<<>>, <<>>, <<"a">>) }

\* The dictionary solveWordle loads: words as they are spelled, one of them
\* with an accent.
GameDictionary ==
    << <<"a","b","c">>, <<"c","á","b">>, <<"b","c","a">>, <<"a","a","b">>,
       <<"b","a","a">> >>

\* The words the page may hold as its solution: the words of the dictionary,
\* as the page spells them, and a word the dictionary lacks.
PageSolutions(itHasAccents) ==
    {IF itHasAccents THEN word ELSE normalizeAccents(word) :
        word \in Range(GameDictionary)} \cup { <<"c","b","a">> }

\* The colour of a cell that shows none of the three colours of
\* RGB_CELL_COLORS.
OtherColor == "OTHER"

\* The cells of a played row that rule their letter out at their index: the
\* page coloured them PRESENT or ABSENT.
RefutedCells(word, cellStateColor) ==
    {<<word[k], k>> : k \in {j \in DOMAIN word :
        cellStateColor[j] \in {RGB_CELL_COLORS.PRESENT, RGB_CELL_COLORS.ABSENT}}}

\* What playRound may read from the row of the played word: a colouring of
\* the word against the page's solution, or cells that show no result.
GamePageColors(word, theSolution) ==
    PageColors(word, theSolution) \cup { [k \in DOMAIN word |-> OtherColor] }

(***************************************************************************)
(* Actions                                                                 *)
(***************************************************************************)

InitWith(allWords) ==
    /\ wordleSolver = WordleSolver(allWords)
    /\ otherSolver = WordleSolver(allWords)
    /\ paired = FALSE
    /\ lastCall = [op |-> "new", params |-> NoParams]
    /\ prevCall = [op |-> "none", params |-> NoParams]
    /\ returned = <<>>
    /\ nCalls = 0
    /\ poisoned = FALSE
    /\ wasReset = FALSE
    /\ resetPoisoned = FALSE
    /\ game = NoGame
    /\ gameSteps = 0
    /\ solutionsFiles = NoFiles
    /\ clock = FirstClock
    /\ run = NoRun

Init ==
    /\ InitWith(Dictionary)
    /\ solution = <<>>

\* wordleSolver.solve(solveParams); the paired engine is given the same call.
Solve(solveParams) ==
    /\ nCalls < MaxCalls
    /\ wordleSolver' = solve(wordleSolver, solveParams)
    /\ otherSolver' = IF paired THEN solve(otherSolver, solveParams) ELSE otherSolver
    /\ returned' = getPossibleWords(wordleSolver')
    /\ lastCall' = [op |-> "solve", params |-> solveParams]
    /\ prevCall' = lastCall
    /\ nCalls' = nCalls + 1
    /\ poisoned' = (poisoned \/ Conflicts(wordleSolver, solveParams))
    /\ UNCHANGED <<paired, wasReset, resetPoisoned, solution, game, gameSteps, runVars>>

\* wordleSolver.reset(); a new engine is constructed over the same dictionary.
Reset ==
    /\ wordleSolver' = reset(wordleSolver)
    /\ otherSolver' = WordleSolver(wordleSolver.ALL_WORDS)
    /\ paired' = TRUE
    /\ lastCall' = [op |-> "reset", params |-> NoParams]
    /\ prevCall' = lastCall
    /\ poisoned' = FALSE
    /\ wasReset' = TRUE
    /\ resetPoisoned' = poisoned
    /\ UNCHANGED <<returned, nCalls, solution, game, gameSteps, runVars>>

\* otherSolver.restoreTo(wordleSolver.getState())
RestoreTo ==
    /\ otherSolver' = restoreTo(otherSolver, getState(wordleSolver))
    /\ paired' = FALSE
    /\ returned' = getPossibleWords(otherSolver')
    /\ lastCall' = [op |-> "restoreTo", params |-> NoParams]
    /\ prevCall' = lastCall
    /\ UNCHANGED <<wordleSolver, nCalls, poisoned, wasReset, resetPoisoned, solution, game, gameSteps, runVars>>

\* Both engines solve with the same confirmed and absent letters, each with
\* its own misplaced record.
SolvePair(solveParams, otherNotInPlaceLetters) ==
    /\ nCalls < MaxCalls
    /\ wordleSolver' = solve(wordleSolver, solveParams)
    /\ otherSolver' = solve(otherSolver,
                            [solveParams EXCEPT !.notInPlaceLetters = otherNotInPlaceLetters])
    /\ returned' = getPossibleWords(wordleSolver')
    /\ lastCall' = [op |-> "solve", params |-> solveParams]
    /\ prevCall' = lastCall
    /\ nCalls' = nCalls + 1
    /\ poisoned' = (poisoned \/ Conflicts(wordleSolver, solveParams))
    /\ UNCHANGED <<paired, wasReset, resetPoisoned, solution, game, gameSteps, runVars>>

\* Each engine solves with its own feedback.
SolveBoth(solveParams, otherParams) ==
    /\ nCalls < MaxCalls
    /\ wordleSolver' = solve(wordleSolver, solveParams)
    /\ otherSolver' = solve(otherSolver, otherParams)
    /\ returned' = getPossibleWords(wordleSolver')
    /\ lastCall' = [op |-> "solve", params |-> solveParams]
    /\ prevCall' = lastCall
    /\ nCalls' = nCalls + 1
    /\ poisoned' = (poisoned \/ Conflicts(wordleSolver, solveParams))
    /\ UNCHANGED <<paired, wasReset, resetPoisoned, solution, game, gameSteps, runVars>>

\* The engine solves with the feedback; the other engine stands for the same
\* engine, in the same state, solving with the feedback cut to the word length.
SolveTruncated(solveParams) ==
    /\ nCalls < MaxCalls
    /\ wordleSolver' = solve(wordleSolver, solveParams)
    /\ otherSolver' = solve(wordleSolver,
                            Truncated(solveParams, getWordLength(wordleSolver)))
    /\ returned' = getPossibleWords(wordleSolver')
    /\ lastCall' = [op |-> "solve", params |-> solveParams]
    /\ prevCall' = lastCall
    /\ nCalls' = nCalls + 1
    /\ poisoned' = (poisoned \/ Conflicts(wordleSolver, solveParams))
    /\ UNCHANGED <<paired, wasReset, resetPoisoned, solution, game, gameSteps, runVars>>

\* reset(allWords) with another dictionary.
ResetTo(allWords) ==
    /\ wordleSolver' = resetTo(wordleSolver, allWords)
    /\ otherSolver' = WordleSolver(allWords)
    /\ paired' = TRUE
    /\ lastCall' = [op |-> "reset", params |-> NoParams]
    /\ prevCall' = lastCall
    /\ poisoned' = FALSE
    /\ wasReset' = TRUE
    /\ resetPoisoned' = poisoned
    /\ UNCHANGED <<returned, nCalls, solution, game, gameSteps, runVars>>

\* getState(): the three stored fields are read, nothing is assigned.
GetState ==
    /\ getState(wordleSolver) \in
           [validLetters : {wordleSolver.validLetters},
            notInPlaceLetters : {wordleSolver.notInPlaceLetters},
            invalidLetters : {wordleSolver.invalidLetters}]
    /\ lastCall' = [op |-> "getState", params |-> NoParams]
    /\ prevCall' = lastCall
    /\ UNCHANGED <<wordleSolver, otherSolver, paired, returned, nCalls,
                   poisoned, wasReset, resetPoisoned, solution, game, gameSteps, runVars>>

\* getPossibleWords(): the cached list is read, nothing is assigned.
GetPossibleWords ==
    /\ getPossibleWords(wordleSolver) = wordleSolver.possibleWords
    /\ lastCall' = [op |-> "getPossibleWords", params |-> NoParams]
    /\ prevCall' = lastCall
    /\ UNCHANGED <<wordleSolver, otherSolver, paired, returned, nCalls,
                   poisoned, wasReset, resetPoisoned, solution, game, gameSteps, runVars>>

\* Each engine solves with feedback of its own; paired tells whether the two
\* have been given the same calls since the reset.
SolveEach(solveParams, otherParams) ==
    /\ nCalls < MaxCalls
    /\ wordleSolver' = solve(wordleSolver, solveParams)
    /\ otherSolver' = solve(otherSolver, otherParams)
    /\ paired' = (paired /\ solveParams = otherParams)
    /\ returned' = getPossibleWords(wordleSolver')
    /\ lastCall' = [op |-> "solve", params |-> solveParams]
    /\ prevCall' = lastCall
    /\ nCalls' = nCalls + 1
    /\ poisoned' = (poisoned \/ Conflicts(wordleSolver, solveParams))
    /\ UNCHANGED <<wasReset, resetPoisoned, solution, game, gameSteps, runVars>>

\* A round of the game against the solution: the word is played, the page
\* colours it, and the engine solves with the feedback playRound builds.
PlayRound(word) ==
    \E cellStateColor \in PageColors(word, solution) :
        Solve(playRound(word, cellStateColor))

Next ==
    \/ \E solveParams \in SolveInputs : Solve(solveParams)
    \/ Reset

Spec == Init /\ [][Next]_vars

\* A run of solve calls on the engine, and restores of the other engine from it.
NextRestore ==
    \/ \E solveParams \in SolveInputs : Solve(solveParams)
    \/ RestoreTo

SpecRestore == Init /\ [][NextRestore]_vars

\* Two reset-free runs fed the same confirmed and absent letters and their
\* own misplaced records.
NextOrder ==
    \E solveParams \in OrderInputs, otherNotInPlaceLetters \in OrderRecords :
        SolvePair(solveParams, otherNotInPlaceLetters)

SpecOrder == Init /\ [][NextOrder]_vars

\* A game played truthfully against a solution of the dictionary.
InitTruthful ==
    /\ InitWith(Dictionary)
    /\ solution \in Range(Dictionary)

NextTruthful == \E word \in PlayedWords : PlayRound(word)

SpecTruthful == InitTruthful /\ [][NextTruthful]_vars

\* The two worked examples, each over its own dictionary.
InitScenario ==
    /\ \E allWords \in {AppleWords, CraneWords} : InitWith(allWords)
    /\ solution = <<>>

NextScenario ==
    \/ \E solveParams \in ScenarioInputs(wordleSolver.ALL_WORDS) : Solve(solveParams)
    \/ Reset

SpecScenario == InitScenario /\ [][NextScenario]_vars

\* Two reset-free runs given the same feedback up to the spelling of the
\* markers.
NextMarkers ==
    \E solveParams \in MarkerInputs :
        \E otherParams \in ParamsMarkerVariants(solveParams) :
            SolveBoth(solveParams, otherParams)

SpecMarkers == Init /\ [][NextMarkers]_vars

\* A reset-free run in which every solve is shadowed by the same solve with
\* its positional strings cut to the word length.
NextTruncate == \E solveParams \in TruncateInputs : SolveTruncated(solveParams)

SpecTruncate == Init /\ [][NextTruncate]_vars

\* Solves interleaved with the calls that read the engine and with resets,
\* with and without a new dictionary.
NextCache ==
    \/ \E solveParams \in CacheInputs : Solve(solveParams)
    \/ Reset
    \/ ResetTo(OtherDictionary)
    \/ GetState
    \/ GetPossibleWords

SpecCache == Init /\ [][NextCache]_vars

\* Two engines over one dictionary, each given its own feedback; a reset
\* leaves the first with the list it had cached and the second new.
NextIndependent ==
    \/ \E solveParams, otherParams \in IndependentInputs :
           SolveEach(solveParams, otherParams)
    \/ Reset

SpecIndependent == Init /\ [][NextIndependent]_vars

\* solveWordle is about to be called on a page with or without accents.
InitGame ==
    /\ wordleSolver = WordleSolver(<<>>)
    /\ otherSolver = WordleSolver(<<>>)
    /\ paired = FALSE
    /\ lastCall = [op |-> "none", params |-> NoParams]
    /\ prevCall = [op |-> "none", params |-> NoParams]
    /\ returned = <<>>
    /\ nCalls = 0
    /\ poisoned = FALSE
    /\ wasReset = FALSE
    /\ resetPoisoned = FALSE
    /\ gameSteps = 0
    /\ solutionsFiles = NoFiles
    /\ clock = FirstClock
    /\ run = NoRun
    /\ \E itHasAccents \in BOOLEAN :
           /\ game = [NoGame EXCEPT !.pc = "start", !.itHasAccents = itHasAccents]
           /\ solution \in PageSolutions(itHasAccents)

\* solveWordle, loadDictionary returning nothing: the early return.
SolveWordleNoDictionary ==
    /\ game.pc = "start"
    /\ game' = [game EXCEPT !.pc = "returned",
                            !.result = [round |-> 0, word |-> NoWord]]
    /\ gameSteps' = gameSteps + 1
    /\ UNCHANGED runVars
    /\ UNCHANGED <<wordleSolver, otherSolver, paired, lastCall, prevCall, returned,
                   nCalls, poisoned, wasReset, resetPoisoned, solution>>

\* solveWordle up to the loop: the dictionaries, the engine, the first word
\* and the counters.
SolveWordleStart ==
    /\ game.pc = "start"
    /\ LET dictionary == GameDictionary
           dualDictionary ==
               [k \in DOMAIN dictionary |->
                   <<dictionary[k], normalizeAccents(dictionary[k])>>]
           dictionaryToUse ==
               IF game.itHasAccents THEN dictionary
               ELSE [k \in DOMAIN dualDictionary |-> dualDictionary[k][2]]
       IN  /\ wordleSolver' = WordleSolver(dictionaryToUse)
           /\ \E word \in selectWord(sortWordsWithMoreLetters(dictionary)) :
                  game' = [game EXCEPT !.pc = "loop",
                                       !.dualDictionary = dualDictionary,
                                       !.word = word,
                                       !.currentRound = NUM_OF_ROUNDS + 1,
                                       !.totalRounds = 1,
                                       !.solution = NoWord]
    /\ lastCall' = [op |-> "new", params |-> NoParams]
    /\ prevCall' = lastCall
    /\ gameSteps' = gameSteps + 1
    /\ UNCHANGED runVars
    /\ UNCHANGED <<otherSolver, paired, returned, nCalls, poisoned, wasReset,
                   resetPoisoned, solution>>

\* One pass through the loop of solveWordle: a new board if the counter has
\* passed the last row, the round played, and either the return on a fully
\* confirmed row or the solve, the next word, the counters and the three
\* checks that end the loop.
SolveWordleRound ==
    /\ game.pc = "loop"
    /\ LET startsNew == game.currentRound > NUM_OF_ROUNDS
           row       == boardRow(game.currentRound)
           played    == IF game.itHasAccents THEN game.word
                        ELSE normalizeAccents(game.word)
       IN  \E cellStateColor \in GamePageColors(played, solution) :
             LET roundResult == playRound(played, cellStateColor)
                 atPlay ==
                     [game EXCEPT
                         !.currentRound = row,
                         !.played = played,
                         !.row = row,
                         !.boards = IF startsNew THEN @ + 1 ELSE @,
                         !.boardRows = (IF startsNew THEN 0 ELSE @) + 1,
                         !.roundsPlayed = @ + 1,
                         !.refutedBefore = game.refuted,
                         !.refuted = @ \cup RefutedCells(played, cellStateColor),
                         !.roundResult = roundResult]
             IN  IF ~includes(roundResult.validLetters, "-")
                 THEN LET found == IF game.itHasAccents THEN game.word
                                   ELSE findWordInDualDictionary(
                                            game.word, game.dualDictionary)
                      IN  /\ game' = [atPlay EXCEPT
                                         !.solution = found,
                                         !.solveCalled = FALSE,
                                         !.pc = "returned",
                                         !.result = [round |-> game.totalRounds,
                                                     word |-> found]]
                          /\ UNCHANGED <<wordleSolver, returned, lastCall, prevCall,
                                         nCalls, poisoned>>
                 ELSE LET possibleWords ==
                              getPossibleWords(solve(wordleSolver, roundResult))
                          wordsWithMoreLetters ==
                              sortWordsWithMoreLetters(possibleWords)
                          totalRounds == game.totalRounds + 1
                      IN  /\ wordleSolver' = solve(wordleSolver, roundResult)
                          /\ returned' = possibleWords
                          /\ lastCall' = [op |-> "solve", params |-> roundResult]
                          /\ prevCall' = lastCall
                          /\ nCalls' = nCalls + 1
                          /\ poisoned' = (poisoned \/ Conflicts(wordleSolver, roundResult))
                          /\ \E word \in selectWord(wordsWithMoreLetters) :
                               LET next == [atPlay EXCEPT
                                               !.word = word,
                                               !.currentRound = row + 1,
                                               !.totalRounds = totalRounds,
                                               !.solveCalled = TRUE]
                                   noSolution ==
                                       [next EXCEPT
                                           !.pc = "returned",
                                           !.result = [round |-> totalRounds,
                                                       word |-> NoWord]]
                               IN  game' =
                                     IF totalRounds > roundsLimit THEN noSolution
                                     ELSE IF Len(wordsWithMoreLetters) = 0 THEN noSolution
                                     ELSE IF Len(wordsWithMoreLetters) = 1
                                     THEN LET theWord == wordsWithMoreLetters[1]
                                              found ==
                                                  IF game.itHasAccents THEN theWord
                                                  ELSE findWordInDualDictionary(
                                                           theWord, game.dualDictionary)
                                          IN  [next EXCEPT
                                                  !.solution = found,
                                                  !.pc = "returned",
                                                  !.result = [round |-> totalRounds,
                                                              word |-> found]]
                                     ELSE next
    /\ gameSteps' = gameSteps + 1
    /\ UNCHANGED runVars
    /\ UNCHANGED <<otherSolver, paired, wasReset, resetPoisoned, solution>>

NextGame ==
    \/ SolveWordleNoDictionary
    \/ SolveWordleStart
    \/ SolveWordleRound

SpecGame == InitGame /\ [][NextGame]_vars

\* solveWordle takes a step: NextGame counts every step it takes in gameSteps
\* and can take one wherever solveWordle has not returned.
SolveWordleStep ==
    /\ game.pc \in {"start", "loop"}
    /\ gameSteps' = gameSteps + 1

\* solveWordle keeps running: each page operation returns.
SpecGameFair == SpecGame /\ WF_gameSteps(SolveWordleStep)

(***************************************************************************)
(* Runs over the solutions files                                           *)
(***************************************************************************)

\* The entries of a solutions file with the given gameIds, in their order.
StoredSolutions(gameIds) ==
    [k \in DOMAIN gameIds |->
        [gameId |-> gameIds[k], word |-> <<"a","b","c","d","e">>, url |-> "custom"]]

\* The solutions files as a first run may find them, each sorted by gameId,
\* largest first, and without a repeated gameId: empty, holding earlier days,
\* holding today, and holding a day ahead of this clock.
InitialSolutionsFiles ==
    LET today(wordleType) == getTodaysGameId(wordleType, FirstClock)
        normal == today("NORMAL")
        accent == today("ACCENT")
    IN  { [NORMAL |-> StoredSolutions(n), ACCENT |-> StoredSolutions(a)] :
            n \in { <<>>, <<normal - 1>>, <<normal, normal - 1>>,
                    <<normal + 2, normal>>, <<normal + 2, normal - 1>> },
            a \in { <<>>, <<accent - 1>>, <<accent>> } }

\* What solveWordle may return as its word: none, or a word of the
\* dictionary, long enough for a custom game or not.
SolveWordleWords == { NoWord, <<"a","b","c">>, <<"c","a","b","l","e">> }

\* What getWordleSolution may return: none (no response, no match, an
\* error), or the five characters matched, in lower case.
WordleSolutions == { NoWord, <<"c","a","b","l","e">> }

InitRun ==
    /\ wordleSolver = WordleSolver(<<>>)
    /\ otherSolver = WordleSolver(<<>>)
    /\ paired = FALSE
    /\ lastCall = [op |-> "none", params |-> NoParams]
    /\ prevCall = [op |-> "none", params |-> NoParams]
    /\ returned = <<>>
    /\ nCalls = 0
    /\ poisoned = FALSE
    /\ wasReset = FALSE
    /\ resetPoisoned = FALSE
    /\ solution = NoWord
    /\ game = NoGame
    /\ gameSteps = 0
    /\ solutionsFiles \in InitialSolutionsFiles
    /\ clock = FirstClock
    /\ run = NoRun

\* The variables no run changes.
engineVars ==
    <<wordleSolver, otherSolver, paired, lastCall, prevCall, returned, nCalls,
      poisoned, wasReset, resetPoisoned, solution, game, gameSteps>>

\* Time passes.
Tick ==
    /\ clock < FirstClock + MaxTicks
    /\ clock' = clock + 1
    /\ UNCHANGED <<solutionsFiles, run>>
    /\ UNCHANGED engineVars

\* The run after the wordle type at run.index: the next type, or the end of
\* the run after the last one.
AfterType(r) ==
    IF r.index < Len(r.types)
    THEN [r EXCEPT !.pc = "loop", !.index = @ + 1]
    ELSE [r EXCEPT !.pc = "none", !.index = @ + 1]

\* start up to its loop: the browser is opened.
StartBegin ==
    /\ run.pc = "none"
    /\ run.runs < MaxRuns
    /\ run' = [pc |-> "loop", entry |-> "start", types |-> WORDLES, index |-> 1,
               gameId |-> 0, readAt |-> 0, solutions |-> <<>>,
               before |-> solutionsFiles,
               added |-> [wordleType \in DOMAIN solutionsFiles |-> 0],
               runs |-> run.runs + 1]
    /\ UNCHANGED <<solutionsFiles, clock>>
    /\ UNCHANGED engineVars

\* One pass through the loop of start, up to solveWordle: today's gameId, the
\* file read, and the next type if the file holds the gameId.
StartRead ==
    /\ run.pc = "loop"
    /\ run.entry = "start"
    /\ LET wordleType == run.types[run.index]
           gameId     == getTodaysGameId(wordleType, clock)
           solutions  == solutionsFiles[wordleType]
           read       == [run EXCEPT !.gameId = gameId, !.readAt = clock,
                                      !.solutions = solutions]
       IN  run' = IF existsSolution(solutions, gameId) THEN AfterType(read)
                  ELSE [read EXCEPT !.pc = "solve"]
    /\ UNCHANGED <<solutionsFiles, clock>>
    /\ UNCHANGED engineVars

\* The rest of the pass: solveWordle, the next type if it found no word,
\* else the custom game, the entry pushed, the list sorted and written.
StartWrite ==
    /\ run.pc = "solve"
    /\ run.entry = "start"
    /\ \E word \in SolveWordleWords :
         LET wordleType == run.types[run.index]
             entry == [gameId |-> run.gameId, word |-> word,
                       url |-> customWordleUrl(word)]
             solutions == addSolution(run.solutions, entry)
         IN  IF word = NoWord
             THEN /\ run' = AfterType(run)
                  /\ UNCHANGED solutionsFiles
             ELSE /\ solutionsFiles' = [solutionsFiles EXCEPT ![wordleType] = solutions]
                  /\ run' = AfterType([run EXCEPT !.solutions = solutions,
                                                  !.added[wordleType] = @ + 1])
    /\ UNCHANGED clock
    /\ UNCHANGED engineVars

\* main of index.ts up to getWordleSolution: the file read, today's gameId,
\* and the return if the file holds it.
MainRead ==
    /\ run.pc = "none"
    /\ run.runs < MaxRuns
    /\ LET wordleType == MainTypes[1]
           solutions  == solutionsFiles[wordleType]
           gameId     == getTodaysGameId(wordleType, clock)
           read       == [pc |-> "fetch", entry |-> "main", types |-> MainTypes,
                          index |-> 1, gameId |-> gameId, readAt |-> clock,
                          solutions |-> solutions,
                          before |-> solutionsFiles,
                          added |-> [t \in DOMAIN solutionsFiles |-> 0],
                          runs |-> run.runs + 1]
       IN  run' = IF existsSolution(solutions, gameId) THEN AfterType(read)
                  ELSE read
    /\ UNCHANGED <<solutionsFiles, clock>>
    /\ UNCHANGED engineVars

\* The rest of main: getWordleSolution, the return if it found no word, else
\* the entry pushed, the list sorted and written.
MainWrite ==
    /\ run.pc = "fetch"
    /\ run.entry = "main"
    /\ \E word \in WordleSolutions :
         LET wordleType == run.types[run.index]
             entry == [gameId |-> run.gameId, word |-> word]
             solutions == addSolution(run.solutions, entry)
         IN  IF word = NoWord
             THEN /\ run' = AfterType(run)
                  /\ UNCHANGED solutionsFiles
             ELSE /\ solutionsFiles' = [solutionsFiles EXCEPT ![wordleType] = solutions]
                  /\ run' = AfterType([run EXCEPT !.solutions = solutions,
                                                  !.added[wordleType] = @ + 1])
    /\ UNCHANGED clock
    /\ UNCHANGED engineVars

NextRun ==
    \/ Tick
    \/ StartBegin
    \/ StartRead
    \/ StartWrite
    \/ MainRead
    \/ MainWrite

SpecRun == InitRun /\ [][NextRun]_vars

(***************************************************************************)
(* Properties                                                              *)
(***************************************************************************)

Poison(this) == Repeat("?", getWordLength(this))

AllEmpty(solveParams) == sanitizeSolveParams(solveParams) = NoParams

\* solveParams carries a misplaced record and nothing else.
OnlyNotInPlace(solveParams) ==
    LET sane == sanitizeSolveParams(solveParams)
    IN  sane.validLetters = <<>> /\ sane.invalidLetters = <<>>
            /\ sane.notInPlaceLetters # <<>>

RECURSIVE IsSubsequence(_, _)
IsSubsequence(s, t) ==
    IF s = <<>> THEN TRUE
    ELSE IF t = <<>> THEN FALSE
    ELSE IF Head(s) = Head(t) THEN IsSubsequence(Tail(s), Tail(t))
    ELSE IsSubsequence(s, Tail(t))

\* C1 (SpecTruthful): when every solve is given the truthful marking of a
\* played word against the solution, the solution is in the list every solve
\* returns and the confirmed letters are never the all-'?' value.
TruthfulSoundness ==
    nCalls >= 1 =>
        /\ solution \in Range(returned)
        /\ wordleSolver.validLetters # Poison(wordleSolver)

\* Two rounds played, with a letter of the solution reported absent (a repeated
\* letter of a played word) and other words eliminated.
TruthfulSoundnessWitness ==
    /\ nCalls >= 2
    /\ \E k \in DOMAIN wordleSolver.invalidLetters :
          includes(solution, wordleSolver.invalidLetters[k])
    /\ solution \in Range(returned)
    /\ Len(returned) < Len(wordleSolver.ALL_WORDS)

\* C2 (SpecRestore): after any run of solve calls on the engine,
\* restoreTo(getState()) on the other engine returns, and leaves as its
\* candidate list, the engine's candidate list.
RestoreEquivalence ==
    lastCall.op = "restoreTo" =>
        /\ returned = getPossibleWords(wordleSolver)
        /\ getPossibleWords(otherSolver) = getPossibleWords(wordleSolver)

\* A restore from an engine holding confirmed letters, two misplaced records
\* and absent letters, with candidates left.
RestoreEquivalenceWitness ==
    /\ lastCall.op = "restoreTo"
    /\ Len(wordleSolver.notInPlaceLetters) >= 2
    /\ wordleSolver.invalidLetters # <<>>
    /\ wordleSolver.validIndexes # <<>>
    /\ returned # <<>>

\* C3 (Spec): once a solve has supplied a confirmed letter that differs from
\* the one held at its index, that solve and every later one return the empty
\* list, until reset.
PoisonPropagation ==
    poisoned => (lastCall.op = "solve" /\ returned = <<>>)

\* A solve after the conflicting one, carrying absent letters and no
\* confirmed letter.
PoisonPropagationWitness ==
    /\ poisoned
    /\ lastCall.params.validLetters = <<>>
    /\ lastCall.params.invalidLetters # <<>>
    /\ wordleSolver.validLetters = Poison(wordleSolver)

\* C4 (Spec): after reset() the engine's state is that of a newly constructed
\* engine: getState() is empty, and the solve calls that follow leave the same
\* state and return the same lists as on an engine constructed at the reset.
ResetIsFresh ==
    paired =>
        /\ getState(wordleSolver) = getState(otherSolver)
        /\ lastCall.op = "reset" => getState(wordleSolver) = NoParams
        /\ lastCall.op = "solve" => returned = getPossibleWords(otherSolver)

\* A poisoned engine is reset and then solves with a non-empty result.
ResetIsFreshWitness ==
    /\ paired
    /\ resetPoisoned
    /\ lastCall.op = "solve"
    /\ returned # <<>>
    /\ Len(returned) < Len(wordleSolver.ALL_WORDS)

\* C5 (SpecOrder): two reset-free runs given the same confirmed and absent
\* letters whose stored misplaced records are the same set end with the same
\* candidate list, whatever the order and the repetitions of the records.
OrderIndependence ==
    (nCalls >= 1 /\ Range(wordleSolver.notInPlaceLetters) = Range(otherSolver.notInPlaceLetters))
        => getPossibleWords(wordleSolver) = getPossibleWords(otherSolver)

\* The two runs hold the same records, two or more, in different orders.
OrderIndependenceWitness ==
    /\ Range(wordleSolver.notInPlaceLetters) = Range(otherSolver.notInPlaceLetters)
    /\ wordleSolver.notInPlaceLetters # otherSolver.notInPlaceLetters
    /\ Len(wordleSolver.notInPlaceLetters) >= 2
    /\ returned # <<>>

\* C6 (Spec): a solve that repeats the previous solve's feedback, a misplaced
\* record with confirmed and absent letters empty, leaves the candidate list
\* and the stored misplaced rounds as the first of the two left them.
IdempotentReingestion ==
    [][(/\ nCalls' = nCalls + 1
        /\ lastCall.op = "solve"
        /\ lastCall'.params = lastCall.params
        /\ OnlyNotInPlace(lastCall.params))
       => (/\ returned' = returned
           /\ getPossibleWords(wordleSolver') = getPossibleWords(wordleSolver)
           /\ getNotInPlaceLetters(wordleSolver') = getNotInPlaceLetters(wordleSolver))]_vars

\* The same misplaced record was given twice in a row, to an engine that
\* already held other feedback.
IdempotentReingestionWitness ==
    /\ lastCall.op = "solve"
    /\ prevCall = lastCall
    /\ OnlyNotInPlace(lastCall.params)
    /\ nCalls >= 3
    /\ returned # <<>>

\* C7 (Spec): a solve with three empty feedback strings that follows a solve
\* returns the list that solve returned and leaves getState() unchanged.
EmptySolveChangesNothing ==
    [][(/\ nCalls' = nCalls + 1
        /\ lastCall.op = "solve"
        /\ AllEmpty(lastCall'.params))
       => (/\ returned' = returned
           /\ getState(wordleSolver') = getState(wordleSolver))]_vars

\* An empty solve after a solve that had left a single candidate.
EmptySolveChangesNothingWitness ==
    /\ lastCall.op = "solve"
    /\ prevCall.op = "solve"
    /\ AllEmpty(lastCall.params)
    /\ ~AllEmpty(prevCall.params)
    /\ ~wasReset
    /\ Len(returned) = 1

\* C8 (Spec): the list a solve returns is a subsequence of the dictionary.
ReturnedIsSubsequence ==
    lastCall.op = "solve" => IsSubsequence(returned, wordleSolver.ALL_WORDS)

\* A solve returned several words that are not adjacent in the dictionary.
ReturnedIsSubsequenceWitness ==
    /\ lastCall.op = "solve"
    /\ Len(returned) >= 3
    /\ \A k \in 1..(Len(wordleSolver.ALL_WORDS) - Len(returned) + 1) :
          returned # SubSeq(wordleSolver.ALL_WORDS, k, k + Len(returned) - 1)

\* The engine over ["apple","mango"] holds confirmed "_pp__", the misplaced
\* record "a____" and the absent letter "a".
AppleState ==
    /\ wordleSolver.ALL_WORDS = AppleWords
    /\ lastCall.op = "solve"
    /\ getState(wordleSolver) =
          [validLetters |-> <<" ","p","p"," "," ">>,
           notInPlaceLetters |-> << <<"a","_","_","_","_">> >>,
           invalidLetters |-> <<"a">>]

\* C9 (SpecScenario): in that state the absent-letter pass keeps "apple": the
\* list solve assigns after Pass 2 holds it, as the one after Pass 1 does.
DuplicateLetterException ==
    AppleState =>
        /\ solvePasses(wordleSolver)[1] = << <<"a","p","p","l","e">> >>
        /\ solvePasses(wordleSolver)[2] = << <<"a","p","p","l","e">> >>

\* The state of the example is reached; the list solve returned there is
\* empty, "apple" being dropped after Pass 2.
DuplicateLetterExceptionWitness ==
    /\ AppleState
    /\ returned = <<>>

\* The first solve of an engine over ["crane","crate","trace","cabin"], with
\* confirmed "cra__", no misplaced record and absent "b".
CraneCall ==
    /\ wordleSolver.ALL_WORDS = CraneWords
    /\ lastCall = [op |-> "solve",
                   params |-> SolveParams(<<"c","r","a","_","_">>, <<>>, <<"b">>)]
    /\ nCalls = 1

\* C10 (SpecScenario): that solve returns exactly ["crane","crate"].
ConcreteScenario ==
    CraneCall => returned = << <<"c","r","a","n","e">>, <<"c","r","a","t","e">> >>

\* That solve was made, and returned two words.
ConcreteScenarioWitness ==
    /\ CraneCall
    /\ Len(returned) = 2

\* C11 (SpecMarkers): two runs whose feedback strings differ only in which
\* marker stands at the marker positions hold the same candidate list after
\* every solve (no dictionary word holds a marker).
MarkersInterchangeable ==
    nCalls >= 1 => getPossibleWords(wordleSolver) = getPossibleWords(otherSolver)

\* C12 (SpecTruncate): after a solve whose misplaced string is longer than the
\* words, the candidate list is the one the same engine gives for the first
\* L characters of that string.
MisplacedTruncation ==
    (/\ lastCall.op = "solve"
     /\ Len(lastCall.params.notInPlaceLetters) > getWordLength(wordleSolver))
        => getPossibleWords(wordleSolver) = getPossibleWords(otherSolver)

\* C13 (SpecTruncate): after a solve whose confirmed string is longer than the
\* words, the stored confirmed letters and the candidate list are the ones the
\* same engine gives for the first L characters of that string.
ConfirmedTruncation ==
    (/\ lastCall.op = "solve"
     /\ Len(lastCall.params.validLetters) > getWordLength(wordleSolver))
        => /\ getValidLetters(wordleSolver) = getValidLetters(otherSolver)
           /\ getPossibleWords(wordleSolver) = getPossibleWords(otherSolver)

\* C14 (Spec), as the specification states it: in every reachable state,
\* right after construction and right after reset included, the confirmed
\* letters have exactly the length of the words.
ValidLettersLengthAlways ==
    Len(getValidLetters(wordleSolver)) = getWordLength(wordleSolver)

\* C14 (Spec), amended: the confirmed letters have exactly the length of the
\* words after every solve; right after construction and right after reset,
\* until the next solve, they are the empty string.
ValidLettersLength ==
    /\ lastCall.op = "solve" =>
           Len(getValidLetters(wordleSolver)) = getWordLength(wordleSolver)
    /\ lastCall.op \in {"new", "reset"} => getValidLetters(wordleSolver) = <<>>

\* A solve with a one-letter confirmed string, after a reset that followed a
\* solve: the stored string has the full length again.
ValidLettersLengthWitness ==
    /\ lastCall.op = "solve"
    /\ wasReset
    /\ Len(lastCall.params.validLetters) = 1
    /\ Len(getValidLetters(wordleSolver)) = getWordLength(wordleSolver)
    /\ \E k \in DOMAIN getValidLetters(wordleSolver) :
           ~isEmpty(getValidLetters(wordleSolver)[k])

\* C15 (SpecCache): getPossibleWords() is the list the most recent solve
\* returned, or the dictionary the engine was constructed with if it has never
\* solved; getState, getPossibleWords and reset leave it unchanged.
CachedCandidateList ==
    /\ [](getPossibleWords(wordleSolver) =
              IF nCalls = 0 THEN Dictionary ELSE returned)
    /\ [][lastCall'.op \in {"getState", "getPossibleWords", "reset"} =>
              getPossibleWords(wordleSolver') = getPossibleWords(wordleSolver)]_vars

\* A reset with a new dictionary after a solve that narrowed the list, read
\* back by getPossibleWords: the list is still the solve's.
CachedCandidateListWitness ==
    /\ lastCall.op = "getPossibleWords"
    /\ prevCall.op = "reset"
    /\ wordleSolver.ALL_WORDS = OtherDictionary
    /\ nCalls >= 1
    /\ getPossibleWords(wordleSolver) = returned
    /\ returned # <<>>
    /\ Len(returned) < Len(Dictionary)
    /\ ~ Range(returned) \subseteq Range(OtherDictionary)

\* C16 (SpecTruthful): in a run without reset, the list a solve returns is a subset
\* of the list the previous solve returned.
MonotoneNarrowing ==
    [][(~wasReset /\ nCalls >= 1 /\ nCalls' = nCalls + 1)
           => Range(returned') \subseteq Range(returned)]_vars

\* The letters occurring anywhere in any stored misplaced record.
LettersOfRecords(this) ==
    UNION { Range(this.notInPlaceLetters[r]) : r \in DOMAIN this.notInPlaceLetters }

\* Some absent letter that occurs in no misplaced record stands in the word at
\* a position where the word differs from the confirmed letter.
HoldsAbsentLetter(this, word) ==
    \E letter \in Range(this.invalidLetters) \ LettersOfRecords(this) :
        \E i \in 0..(Len(word) - 1) :
            /\ At(word, i) = letter
            /\ At(word, i) # At(this.validLetters, i)

\* C17 (Spec): of the words that agree with the confirmed letters, Pass 2
\* rejects exactly those holding, at a position where they differ from the
\* confirmed letter, an absent letter that occurs in no misplaced record; an
\* absent letter that occurs in a misplaced record rejects nothing; and solve
\* returns only words Pass 2 kept.
AbsentLetterExclusion ==
    LET pass1 == solvePasses(wordleSolver)[1]
        pass2 == removeWordsWithInvalidLetters(wordleSolver, pass1)
    IN  /\ \A word \in Range(pass1) :
               word \notin Range(pass2) <=> HoldsAbsentLetter(wordleSolver, word)
        /\ lastCall.op = "solve" => Range(returned) \subseteq Range(pass2)

\* After a solve, Pass 2 rejects a word for one absent letter and keeps a word
\* holding, off its confirmed letters, another absent letter that a misplaced
\* record mentions.
AbsentLetterExclusionWitness ==
    LET pass1 == solvePasses(wordleSolver)[1]
        pass2 == removeWordsWithInvalidLetters(wordleSolver, pass1)
    IN  /\ lastCall.op = "solve"
        /\ \E word \in Range(pass1) : word \notin Range(pass2)
        /\ \E word \in Range(pass2) :
               \E i \in 0..(Len(word) - 1) :
                   /\ At(word, i) \in Range(wordleSolver.invalidLetters)
                   /\ At(word, i) \in LettersOfRecords(wordleSolver)
                   /\ At(word, i) # At(wordleSolver.validLetters, i)

\* The word obeys the record at position j: it holds another letter there and
\* the record's letter at some other position.
ObeysRecordAt(word, record, j) ==
    /\ At(word, j) # At(record, j)
    /\ \E i \in 0..(Len(word) - 1) : i # j /\ At(word, i) = At(record, j)

\* C18 (Spec): every word solve returned, for every stored misplaced record
\* and every position j of it whose slot is not an empty marker, holds
\* another letter at j and the record's letter at some position other than j,
\* whether j is settled or not.
MisplacedLetterPresence ==
    lastCall.op = "solve" =>
        \A word \in Range(returned) :
            \A r \in DOMAIN wordleSolver.notInPlaceLetters :
                LET record == wordleSolver.notInPlaceLetters[r]
                IN  \A j \in 0..(Len(record) - 1) :
                        ~isEmpty(At(record, j)) => ObeysRecordAt(word, record, j)

\* A solve returned words while two records are stored, one of them with a
\* letter at a settled position, and Pass 4 rejected a word the first three
\* passes had kept.
MisplacedLetterPresenceWitness ==
    /\ lastCall.op = "solve"
    /\ returned # <<>>
    /\ Len(wordleSolver.notInPlaceLetters) >= 2
    /\ \E r \in DOMAIN wordleSolver.notInPlaceLetters :
           \E k \in DOMAIN wordleSolver.validIndexes :
               ~isEmpty(At(wordleSolver.notInPlaceLetters[r],
                           wordleSolver.validIndexes[k]))
    /\ \E word \in Range(solvePasses(wordleSolver)[3]) : word \notin Range(returned)

\* The settled indexes: the positions of the word whose confirmed letter is
\* not an empty marker.
SettledIndexes(this) ==
    { i \in 0..(getWordLength(this) - 1) : ~isEmpty(At(this.validLetters, i)) }

AgreesWithConfirmed(this, word) ==
    \A i \in SettledIndexes(this) : At(word, i) = At(this.validLetters, i)

\* C19 (Spec): a word of the dictionary survives Pass 1 exactly when it holds
\* the confirmed letter at every settled index, whatever it holds at the
\* others; and every word solve returned agrees with the confirmed letters at
\* every settled index.
SettledLetterMatch ==
    /\ \A word \in Range(wordleSolver.ALL_WORDS) :
           word \in Range(filterWordsWithCorrectLetters(wordleSolver,
                                                        wordleSolver.ALL_WORDS))
               <=> AgreesWithConfirmed(wordleSolver, word)
    /\ lastCall.op = "solve" =>
           \A word \in Range(returned) : AgreesWithConfirmed(wordleSolver, word)

\* A solve returned words with two indexes settled and one not: Pass 1 kept
\* more than one word and dropped a word that misses the second settled
\* letter only.
SettledLetterMatchWitness ==
    LET pass1 == filterWordsWithCorrectLetters(wordleSolver, wordleSolver.ALL_WORDS)
    IN  /\ lastCall.op = "solve"
        /\ returned # <<>>
        /\ SettledIndexes(wordleSolver) = {0, 1}
        /\ Len(pass1) >= 2
        /\ \E word \in Range(wordleSolver.ALL_WORDS) :
               /\ word \notin Range(pass1)
               /\ At(word, 0) = At(wordleSolver.validLetters, 0)

\* The word holds, at an index that is not settled, the letter the record
\* holds at that index.
ClashesWithRecord(this, word, record) ==
    \E i \in (0..(getWordLength(this) - 1)) \ SettledIndexes(this) :
        At(word, i) = At(record, i)

\* C20 (Spec): no word Pass 3 keeps, and so no word solve returned, holds at
\* an unsettled index the letter that a stored misplaced record, of the
\* current or of an earlier round, holds at that index.
MisplacedIndexExclusion ==
    LET pass3 == solvePasses(wordleSolver)[3]
    IN  /\ \A word \in Range(pass3) :
               \A r \in DOMAIN wordleSolver.notInPlaceLetters :
                   ~ClashesWithRecord(wordleSolver, word,
                                      wordleSolver.notInPlaceLetters[r])
        /\ lastCall.op = "solve" => Range(returned) \subseteq Range(pass3)

\* A solve returned words while Pass 3 dropped a word that Pass 2 had kept,
\* for the letter a record of an earlier round holds at an unsettled index,
\* the newest record having nothing against the word.
MisplacedIndexExclusionWitness ==
    LET passes == solvePasses(wordleSolver)
        records == wordleSolver.notInPlaceLetters
    IN  /\ lastCall.op = "solve"
        /\ returned # <<>>
        /\ Len(records) >= 2
        /\ \E word \in Range(passes[2]) :
               /\ word \notin Range(passes[3])
               /\ ClashesWithRecord(wordleSolver, word, records[1])
               /\ ~ClashesWithRecord(wordleSolver, word, records[Len(records)])

\* C21 (Spec): across every solve, an index that held a confirmed letter holds
\* it afterwards, an index that was empty takes the incoming letter, and an
\* index empty on both sides stays empty, unless some index holds one letter
\* and receives another: then, and whenever they already were, the confirmed
\* letters are L copies of '?'.
ConfirmedLetterMerge ==
    [][nCalls' = nCalls + 1 =>
        LET wordLength == getWordLength(wordleSolver)
            held     == getValidLetters(wordleSolver)
            incoming == sanitizeInput(lastCall'.params.validLetters)
            merged   == getValidLetters(wordleSolver')
        IN  IF Conflicts(wordleSolver, lastCall'.params)
                \/ (lastCall.op = "solve" /\ held = Poison(wordleSolver))
            THEN merged = Poison(wordleSolver)
            ELSE /\ Len(merged) = wordLength
                 /\ \A i \in 0..(wordLength - 1) :
                        IF ~isEmpty(At(held, i)) THEN At(merged, i) = At(held, i)
                        ELSE IF ~isEmpty(At(incoming, i))
                             THEN At(merged, i) = At(incoming, i)
                        ELSE isEmpty(At(merged, i))]_vars

\* Two solves in a row, the second settling an index the first had left
\* empty: the stored letters hold the letter of each.
ConfirmedLetterMergeWitness ==
    /\ lastCall.op = "solve"
    /\ prevCall.op = "solve"
    /\ prevCall.params.validLetters = <<"a","_","_">>
    /\ lastCall.params.validLetters = <<"_","b">>
    /\ getValidLetters(wordleSolver) = <<"a","b"," ">>

\* A solve found the confirmed letters poisoned by an earlier solve, brought
\* no letter that collides, and left them poisoned.
ConfirmedLetterStaysPoisoned ==
    /\ lastCall.op = "solve"
    /\ prevCall.op = "solve"
    /\ poisoned
    /\ lastCall.params.validLetters = <<>>
    /\ getValidLetters(wordleSolver) = Poison(wordleSolver)

\* C22 (Spec): the stored misplaced records are pairwise different, and every
\* solve leaves them as they were or appends one record at the end: the
\* incoming string, when it is not empty and not stored yet.
MisplacedRoundsGrow ==
    /\ [](\A r, q \in DOMAIN wordleSolver.notInPlaceLetters :
              wordleSolver.notInPlaceLetters[r] = wordleSolver.notInPlaceLetters[q]
                  => r = q)
    /\ [][nCalls' = nCalls + 1 =>
            LET stored   == getNotInPlaceLetters(wordleSolver)
                incoming == sanitizeInput(lastCall'.params.notInPlaceLetters)
                after    == getNotInPlaceLetters(wordleSolver')
            IN  /\ after \in {stored, stored \o <<incoming>>}
                /\ incoming = <<>> => after = stored
                /\ incoming # <<>> => incoming \in Range(after)]_vars

\* Three solves: the record of the first, then a new record, then the first
\* record again, which is not stored twice.
MisplacedRoundsGrowWitness ==
    /\ nCalls = 3
    /\ ~wasReset
    /\ lastCall.op = "solve"
    /\ prevCall.op = "solve"
    /\ lastCall.params.notInPlaceLetters # <<>>
    /\ prevCall.params.notInPlaceLetters # <<>>
    /\ getNotInPlaceLetters(wordleSolver) =
           << sanitizeInput(lastCall.params.notInPlaceLetters),
              sanitizeInput(prevCall.params.notInPlaceLetters) >>

\* The letters of string not in seen, each once, in the order of their first
\* occurrence.
RECURSIVE FirstSeen(_, _)
FirstSeen(string, seen) ==
    IF string = <<>> THEN <<>>
    ELSE IF Head(string) \in seen THEN FirstSeen(Tail(string), seen)
    ELSE <<Head(string)>> \o FirstSeen(Tail(string), seen \cup {Head(string)})

\* C23 (Spec): the accumulated absent letters hold no letter twice, and after
\* every solve they are the letters held before, in their order, followed by
\* the incoming letters not held yet, each once and in the order they come.
AbsentLettersAccumulate ==
    /\ [](\A k, m \in DOMAIN wordleSolver.invalidLetters :
              wordleSolver.invalidLetters[k] = wordleSolver.invalidLetters[m]
                  => k = m)
    /\ [][nCalls' = nCalls + 1 =>
            LET held     == getInvalidLetters(wordleSolver)
                incoming == sanitizeInput(lastCall'.params.invalidLetters)
            IN  getInvalidLetters(wordleSolver') =
                    held \o FirstSeen(incoming, Range(held))]_vars

\* A solve brought two absent letters, one of them held already in another
\* case: the held letter keeps its place and the new one follows.
AbsentLettersAccumulateWitness ==
    /\ lastCall.op = "solve"
    /\ prevCall.op = "solve"
    /\ prevCall.params.invalidLetters = <<"C">>
    /\ lastCall.params.invalidLetters = <<"c","b">>
    /\ getInvalidLetters(wordleSolver) = <<"a","c","b">>

\* C24 (SpecIndependent): after a solve on each of two engines over one
\* dictionary, equal exported states mean equal candidate lists, whatever the
\* two had cached before; the list is the four passes over the dictionary.
SolveNotIncremental ==
    lastCall.op = "solve" =>
        /\ getPossibleWords(wordleSolver) =
               solvePasses([wordleSolver EXCEPT !.possibleWords = <<>>])[4]
        /\ (/\ wordleSolver.ALL_WORDS = otherSolver.ALL_WORDS
            /\ getState(wordleSolver) = getState(otherSolver))
               => getPossibleWords(wordleSolver) = getPossibleWords(otherSolver)

\* After a reset the two engines were given different calls, the first one
\* starting from the list it had cached before the reset, and they hold the
\* same state, with letters of all three kinds, and a list that is not empty.
SolveNotIncrementalWitness ==
    /\ lastCall.op = "solve"
    /\ wasReset
    /\ ~paired
    /\ getState(wordleSolver) = getState(otherSolver)
    /\ getNotInPlaceLetters(wordleSolver) # <<>>
    /\ getInvalidLetters(wordleSolver) # <<>>
    /\ getPossibleWords(wordleSolver) # <<>>

\* Some stored misplaced record holds, at an index, the very letter that is
\* confirmed at that index.
YellowIsGreen(this) ==
    \E r \in DOMAIN this.notInPlaceLetters :
        \E j \in 0..(getWordLength(this) - 1) :
            /\ ~isEmpty(At(this.notInPlaceLetters[r], j))
            /\ At(this.notInPlaceLetters[r], j) = At(this.validLetters, j)

\* C25 (Spec): when a stored misplaced record holds at an index the letter
\* confirmed at that index, the confirmed letters are not the all-'?' value
\* and the solve returned no word; and every later solve returns no word.
YellowGreenContradiction ==
    /\ []((lastCall.op = "solve" /\ YellowIsGreen(wordleSolver)) =>
              /\ returned = <<>>
              /\ getPossibleWords(wordleSolver) = <<>>
              /\ getValidLetters(wordleSolver) # Poison(wordleSolver))
    /\ [][(YellowIsGreen(wordleSolver) /\ nCalls' = nCalls + 1)
              => returned' = <<>>]_vars

\* The second solve after the contradiction arose: the confirmed letters are
\* not poisoned, the first three passes keep words and the list is empty.
YellowGreenContradictionWitness ==
    /\ lastCall.op = "solve"
    /\ prevCall.op = "solve"
    /\ YellowIsGreen(wordleSolver)
    /\ YellowIsGreen([wordleSolver EXCEPT
           !.validLetters = sanitizeInput(prevCall.params.validLetters),
           !.notInPlaceLetters = <<sanitizeInput(prevCall.params.notInPlaceLetters)>>])
    /\ ~poisoned
    /\ solvePasses(wordleSolver)[3] # <<>>
    /\ returned = <<>>

\* The round just played was fully confirmed: no '-' in its validLetters.
FullyConfirmed == ~includes(game.roundResult.validLetters, "-")

\* C26 (SpecGameFair): solveWordle returns; it plays at most NUM_OF_ROUNDS * 2
\* rounds; the loop goes on only after a round that was not fully confirmed
\* and left two words or more; and when it has ended, the last round was fully
\* confirmed, or left one word or none, or was the last of the rounds allowed.
LoopTerminates ==
    /\ <>(game.pc = "returned")
    /\ [](game.roundsPlayed <= NUM_OF_ROUNDS * 2)
    /\ []((game.pc = "loop" /\ game.roundsPlayed >= 1) =>
              /\ ~FullyConfirmed
              /\ Len(returned) >= 2
              /\ game.roundsPlayed < NUM_OF_ROUNDS * 2)
    /\ []((game.pc = "returned" /\ game.roundsPlayed >= 1) =>
              \/ FullyConfirmed
              \/ Len(returned) <= 1
              \/ game.roundsPlayed = NUM_OF_ROUNDS * 2)

\* solveWordle has returned after twelve rounds, the last one neither fully
\* confirmed nor leaving fewer than two words.
LoopTerminatesWitness ==
    /\ game.pc = "returned"
    /\ game.roundsPlayed = NUM_OF_ROUNDS * 2
    /\ ~FullyConfirmed
    /\ Len(returned) >= 2
    /\ game.result = [round |-> NUM_OF_ROUNDS * 2 + 1, word |-> NoWord]

\* word is the dictionary's own form of the word the engine or the page holds:
\* the word itself in a game with accents, else a dictionary word whose
\* accent-normalized form it is.
OriginalFormOf(word, held) ==
    /\ word \in Range(GameDictionary)
    /\ IF game.itHasAccents THEN word = held
       ELSE normalizeAccents(word) = held

\* C27 (SpecGame): after every round in which solve was called, a list of
\* exactly one word makes solveWordle return that word in its original
\* dictionary form, and an empty list makes it return no solution.
SingleWordIsSolution ==
    (game.roundsPlayed >= 1 /\ game.solveCalled) =>
        /\ Len(returned) = 1 =>
               /\ game.pc = "returned"
               /\ OriginalFormOf(game.result.word, returned[1])
        /\ Len(returned) = 0 =>
               /\ game.pc = "returned"
               /\ game.result.word = NoWord

\* C28 (SpecGame): after every round whose feedback has every position
\* confirmed, solveWordle has returned a defined word, the original dictionary
\* form of the word just played.
FullyConfirmedIsSolution ==
    (game.roundsPlayed >= 1 /\ FullyConfirmed) =>
        /\ game.pc = "returned"
        /\ game.result.word # NoWord
        /\ OriginalFormOf(game.result.word, game.played)

\* A step of the loop that plays a round after the first.
PlaysLaterRound ==
    /\ game.pc = "loop"
    /\ game.roundsPlayed >= 1
    /\ game'.roundsPlayed = game.roundsPlayed + 1

\* Every word played after the first round is a member of the list the
\* preceding solve returned.
GuessFromCandidates ==
    [][PlaysLaterRound => game'.played \in Range(returned)]_vars

\* C29 (SpecGame): every word played after the first round is a member of the
\* list the preceding solve returned, and holds no letter at an index where
\* the page has coloured that letter PRESENT or ABSENT in an earlier round.
GuessAgreesWithFeedback ==
    [][PlaysLaterRound =>
          /\ game'.played \in Range(returned)
          /\ \A k \in DOMAIN game'.played :
                <<game'.played[k], k>> \notin game.refuted]_vars

\* A step of the loop: one round is played.
PlaysRound ==
    /\ game.pc = "loop"
    /\ game'.roundsPlayed = game.roundsPlayed + 1

\* seq starts with the elements of prefix, in their order.
StartsWith(seq, prefix) ==
    /\ Len(prefix) <= Len(seq)
    /\ \A k \in DOMAIN prefix : seq[k] = prefix[k]

\* C30 (SpecGame): every round is played on a row between 1 and NUM_OF_ROUNDS,
\* the next row of its board; a round starts a new board exactly when the row
\* counter has passed NUM_OF_ROUNDS, which is the case before the first round
\* and after the last row of a board, and only then is the row 1; and no
\* round, the first of a new board included, resets the engine: it keeps its
\* dictionary, its misplaced records and its absent letters, and the list it
\* returns is the one solve computes from the state it held before the round.
BoardRows ==
    /\ [](game.roundsPlayed >= 1 =>
              /\ game.row \in 1..NUM_OF_ROUNDS
              /\ game.row = game.boardRows
              /\ game.roundsPlayed = (game.boards - 1) * NUM_OF_ROUNDS + game.row)
    /\ [][PlaysRound =>
              /\ (game'.boards = game.boards + 1) <=> (game.currentRound > NUM_OF_ROUNDS)
              /\ (game'.boards = game.boards) <=> (game.currentRound <= NUM_OF_ROUNDS)
              /\ (game.currentRound > NUM_OF_ROUNDS) <=>
                     (game.roundsPlayed = 0 \/ game.row = NUM_OF_ROUNDS)
              /\ (game'.row = 1) <=> (game.currentRound > NUM_OF_ROUNDS)
              /\ (game.roundsPlayed >= 1) =>
                     /\ wordleSolver'.ALL_WORDS = wordleSolver.ALL_WORDS
                     /\ StartsWith(wordleSolver'.notInPlaceLetters,
                                   wordleSolver.notInPlaceLetters)
                     /\ StartsWith(wordleSolver'.invalidLetters,
                                   wordleSolver.invalidLetters)
                     /\ game'.solveCalled =>
                            returned' = getPossibleWords(
                                solve(wordleSolver, game'.roundResult))]_vars

\* The first round of the second board has been played and the list returned
\* after it is not the one a new engine would return for that round alone:
\* the feedback of the first board still narrows it.
BoardRowsWitness ==
    /\ game.roundsPlayed = NUM_OF_ROUNDS + 1
    /\ game.boards = 2
    /\ game.row = 1
    /\ game.solveCalled
    /\ wordleSolver.notInPlaceLetters # <<>>
    /\ returned # getPossibleWords(
           solve(WordleSolver(wordleSolver.ALL_WORDS), game.roundResult))

\* The gameIds of a list of solutions, in its order.
GameIds(solutions) == [k \in DOMAIN solutions |-> solutions[k].gameId]

\* No two entries of the list hold the same gameId.
UniqueGameIds(solutions) ==
    \A j, k \in DOMAIN solutions :
        solutions[j].gameId = solutions[k].gameId => j = k

\* The list is sorted by gameId in descending order.
SortedByGameId(solutions) ==
    \A j, k \in DOMAIN solutions :
        j < k => solutions[j].gameId >= solutions[k].gameId

\* The entries of the list that hold another gameId, in their order.
WithoutGameId(solutions, gameId) ==
    LET other(entry) == entry.gameId # gameId
    IN  SelectSeq(solutions, other)

\* C31 (SpecRun): a step of a run that changes a solutions file changes the
\* file of the wordle type the run is at, and no other; the file held no
\* entry with the gameId the run computed as today's, and afterwards holds
\* exactly one, next to all the entries it held before, in their order, the
\* whole list sorted by gameId in descending order.  A file whose gameIds were
\* unique when the run started has unique gameIds throughout and after the
\* run, and a run adds at most one entry to the file of each wordle type.
SolutionsFileInsertion ==
    /\ [](\A wordleType \in DOMAIN solutionsFiles :
              /\ UniqueGameIds(solutionsFiles[wordleType])
              /\ SortedByGameId(solutionsFiles[wordleType])
              /\ run.runs >= 1 =>
                     /\ UniqueGameIds(run.before[wordleType]) =>
                            UniqueGameIds(solutionsFiles[wordleType])
                     /\ run.added[wordleType] <= 1
                     /\ Len(solutionsFiles[wordleType]) =
                            Len(run.before[wordleType]) + run.added[wordleType])
    /\ [][\A wordleType \in DOMAIN solutionsFiles :
              solutionsFiles'[wordleType] # solutionsFiles[wordleType] =>
                  /\ run.pc \in {"solve", "fetch"}
                  /\ wordleType = run.types[run.index]
                  /\ run.gameId = getTodaysGameId(wordleType, run.readAt)
                  /\ ~\E k \in DOMAIN solutionsFiles[wordleType] :
                         solutionsFiles[wordleType][k].gameId = run.gameId
                  /\ Len(solutionsFiles'[wordleType]) =
                         Len(solutionsFiles[wordleType]) + 1
                  /\ WithoutGameId(solutionsFiles'[wordleType], run.gameId) =
                         solutionsFiles[wordleType]
                  /\ SortedByGameId(solutionsFiles'[wordleType])
                  /\ UniqueGameIds(solutionsFiles'[wordleType])
                  /\ run'.added[wordleType] = run.added[wordleType] + 1
                  /\ \A other \in DOMAIN solutionsFiles \ {wordleType} :
                         solutionsFiles'[other] = solutionsFiles[other]]_vars

\* A run has added today's entry to a file that already held an earlier day
\* and a day ahead: the entry stands between the two.
SolutionsFileInsertionWitness ==
    /\ run.runs >= 1
    /\ run.added["NORMAL"] = 1
    /\ Len(solutionsFiles["NORMAL"]) = 3
    /\ solutionsFiles["NORMAL"][2] \notin Range(run.before["NORMAL"])
    /\ solutionsFiles["NORMAL"][1] \in Range(run.before["NORMAL"])
    /\ solutionsFiles["NORMAL"][3] \in Range(run.before["NORMAL"])

=============================================================================
